---- MODULE Spec2Model ----
(***************************************************************************)
(* usbctl: the device registry, the broadcast hub and the bind             *)
(* orchestrator of src/usbctl.c (Unix build), as a state machine.          *)
(*                                                                         *)
(* Strings are sequences of one-character strings, so that validation,     *)
(* command construction and tokenisation are computed as the code does.    *)
(***************************************************************************)
EXTENDS Integers, Sequences, FiniteSets, TLC

(***************************************************************************)
(* Program constants                                                       *)
(***************************************************************************)
MAX_DEVICES == 32
MAX_CLIENTS == 10
BUSID_MAX == 64
BUSID_FIELD == 16
CMD_SIZE == 256
MAX_ARGS == 15

(***************************************************************************)
(* Bounds of the model                                                     *)
(***************************************************************************)
\* saturation point of the counter of log entries of one failure run
LogCap == 3
\* saturation point of the age (in snapshot changes) of an event
AgeCap == 1
\* longest snapshot the comparison of the poll loop is given
CmpLen == 2

(***************************************************************************)
(* Strings                                                                 *)
(***************************************************************************)
Min(a, b) == IF a < b THEN a ELSE b

Digits == {"0", "1", "2", "3", "4", "5", "6", "7", "8", "9"}

\* the two devices of the modelled host
Dev1 == <<"1", "-", "1">>
Dev2 == <<"2", "-", "1">>
BusIds == {Dev1, Dev2}

\* n copies of the character c
Rep(c, n) == [i \in 1..n |-> c]

\* identifiers handed to the orchestrator: the devices, and ids the grammar
\* is to reject or to accept at its edges
IdSemi == <<"1", ";", "1">>
IdPath == <<".", ".", "/", "e", "t", "c", "/", "p", "a", "s", "s", "w", "d">>
IdLong63 == Rep("1", BUSID_MAX - 1)
CallIds == BusIds \cup {<<>>, IdSemi, <<"1", " ", "1">>, IdPath, IdLong63,
                        Rep("1", BUSID_MAX), Rep("1", BUSID_MAX + 1),
                        <<"1", "-", "-", "1">>}

\* safe_strnlen(s, maxlen)
safe_strnlen(s, maxlen) == Min(Len(s), maxlen)

\* strncmp(s, p, Len(p)) == 0
HasPrefix(s, p) == Len(s) >= Len(p) /\ SubSeq(s, 1, Len(p)) = p

\* a validation of the length alone
validate_busid_anychar(busid) ==
    LET len == safe_strnlen(busid, BUSID_MAX)
    IN  ~(len = 0 \/ len >= BUSID_MAX)

\* validate_busid: non-empty, shorter than 64, digits, '-' and '.' only
validate_busid(busid) ==
    LET len == safe_strnlen(busid, BUSID_MAX)
    IN  /\ ~(len = 0 \/ len >= BUSID_MAX)
        /\ \A i \in 1..len : busid[i] \in Digits \cup {"-", "."}

\* the command strings of the program
W_usbip == <<"u", "s", "b", "i", "p">>
W_bind == <<"b", "i", "n", "d">>
W_unbind == <<"u", "n", "b", "i", "n", "d">>
W_list == <<"l", "i", "s", "t">>
W_b == <<"-", "b">>
W_l == <<"-", "l">>
SP == <<" ">>

allowed_commands ==
    <<W_usbip, <<"l", "s", "u", "s", "b">>, <<"m", "o", "d", "p", "r", "o", "b", "e">>>>

\* the enumeration commands list_usbip_devices tries in turn
usbip_commands ==
    << W_usbip \o SP \o W_list \o SP \o W_l,
       <<"/", "u", "s", "r", "/", "b", "i", "n", "/">> \o W_usbip \o SP \o W_list \o SP \o W_l,
       <<"/", "u", "s", "r", "/", "s", "b", "i", "n", "/">> \o W_usbip \o SP \o W_list \o SP \o W_l >>

\* validate_command: an allowed program name, then a space or the end
validate_command(cmd) ==
    \E i \in 1..Len(allowed_commands) :
        LET a == allowed_commands[i]
        IN  /\ HasPrefix(cmd, a)
            /\ (Len(cmd) = Len(a) \/ cmd[Len(a) + 1] = " ")

\* strtok(cmd, " ") repeated: the maximal runs of non-space characters
RECURSIVE Tokens(_)
Tokens(s) ==
    IF s = <<>> THEN <<>>
    ELSE IF s[1] = " " THEN Tokens(Tail(s))
    ELSE LET n == IF \E j \in 1..Len(s) : s[j] = " "
                  THEN (CHOOSE j \in 1..Len(s) :
                           /\ s[j] = " "
                           /\ \A k \in 1..(j - 1) : s[k] # " ") - 1
                  ELSE Len(s)
         IN  <<SubSeq(s, 1, n)>> \o Tokens(SubSeq(s, n + 1, Len(s)))

\* an argument vector made from a copy of the command in a buffer of
\* BUSID_MAX bytes
ChildArgvSmallCopy(cmd) ==
    LET copy == SubSeq(cmd, 1, safe_strnlen(cmd, BUSID_MAX - 1))
        toks == Tokens(copy)
    IN  SubSeq(toks, 1, Min(Len(toks), MAX_ARGS))

\* the argument vector the child of secure_exec_command passes to execvp
ChildArgv(cmd) ==
    LET copy == SubSeq(cmd, 1, safe_strnlen(cmd, CMD_SIZE - 1))
        toks == Tokens(copy)
    IN  SubSeq(toks, 1, Min(Len(toks), MAX_ARGS))

\* snprintf(cmd, sizeof(cmd), "usbip bind -b %s", busid)
BindCmd(busid) == W_usbip \o SP \o W_bind \o SP \o W_b \o SP \o busid
UnbindCmd(busid) == W_usbip \o SP \o W_unbind \o SP \o W_b \o SP \o busid

\* WEXITSTATUS(status)
WEXITSTATUS(status) == (status \div 256) % 256


(***************************************************************************)
(* State                                                                   *)
(***************************************************************************)
VARIABLES
    \* the host, outside the program
    attached,            \* busids the enumerator prints, in its output order
    sysfs,               \* busids with an entry under drivers/usbip-host
    usbip_ok,            \* the usbip binary can be executed
    peer,                \* per descriptor: "closed", or the remote end's state
    \* the program's globals
    g_devices,           \* g_devices[0 .. g_device_count-1]
    g_usbip_error_shown,
    g_clients,           \* g_clients[0 .. g_client_count-1], the sockets
    g_client_count,
    g_mutex,             \* the holder of g_mutex, or ""
    cfg_file,            \* per path: the lines of the file there
    g_config,            \* g_config.bound_devices[0 .. bound_devices_count-1]
    config_path,         \* g_config.config_path
    opt_c,               \* the path the command line gives with -c, or the default
    g_running,
    shutdown_count,      \* the static counter of signal_handler
    sig,                 \* per signal delivery: where signal_handler is, the count it read
    \* the process
    mpc,                 \* where main is
    ri,                  \* the index of restore_bound_devices
    fp,                  \* per thread: what is buffered in the stream save_config opened
    exit_status,         \* -1 while the process lives, then its exit status
    \* the threads
    pc, req, sock, result, out, cur, prev, json, bi,
    jage,                \* per thread: snapshot changes committed since json was made
    \* what was observed
    canon,               \* g_devices as the last completed refresh left it
    last,                \* per descriptor: the last event delivered on it
    gotUpd,              \* per descriptor: got the list of the last unbind
    upd,                 \* <<x>>: unbind of x succeeded, the host unchanged since
    nlog,                \* log entries of the refresh path in this failure run
    sage,                \* per descriptor: snapshot changes since its last event was made
    pollFailed,          \* the poll loop's refresh of this cycle failed
    call,                \* the orchestrator's last call and what it did
    replies,             \* per thread: HTTP responses sent for its request
    restored,            \* the ids restore_bound_devices handed to bind_device
    saved,               \* <<ids>>: the ids the last save_config wrote, the file closed
    writable,            \* fopen(config_path, "w") succeeds
    slog                 \* log entries written by save_config and its caller

envVars == <<attached, sysfs, usbip_ok, peer>>
progVars == <<g_devices, g_usbip_error_shown, g_clients, g_client_count, g_mutex,
              cfg_file>>
threadVars == <<pc, req, sock, result, out, cur, prev, json, bi, jage>>
histVars == <<canon, last, gotUpd, upd, nlog, sage, pollFailed, call>>
bootVars == <<opt_c, config_path, g_running, shutdown_count, sig, mpc, ri,
              exit_status, restored>>
saveVars == <<g_config, fp, saved, writable, slog>>
vars == <<envVars, progVars, threadVars, histVars, bootVars, saveVars, replies>>

Handlers == {"h1", "h2"}
Threads == {"poll"} \cup Handlers
Fds == 4..(4 + MAX_CLIENTS)

\* the devices that are plugged and unplugged while the server runs
HotIds == {Dev1}

NoReq == [kind |-> "none", busid |-> <<>>]
\* the deliveries of SIGINT or SIGTERM that are followed, each to a thread
SigCtx == {"s1", "s2"}
NoCall == [op |-> "none", busid |-> <<>>, result |-> 0, argv |-> <<>>,
           status |-> -1, log |-> <<>>, refreshed |-> FALSE]

\* an array entry after memset(current, 0, sizeof(usb_device_t))
ZeroDevice == [busid |-> <<>>, bound |-> FALSE]

(***************************************************************************)
(* The external programs and sysfs                                         *)
(***************************************************************************)
\* every id of the grammar taken for bound, whatever sysfs holds
BoundWhenValid(busid) == validate_busid(busid)

\* stat("/sys/bus/usb/drivers/usbip-host/<busid>") == 0
is_device_bound(busid) == validate_busid(busid) /\ busid \in sysfs

\* waitpid statuses of a child: exit(n) is n * 256, death by signal n is n
ExitStatus(n) == n * 256
SignalStatus(n) == n

\* what running argv can do: the status waitpid reports and sysfs afterwards
ExecOutcomes(argv) ==
    LET failed == {[status |-> ExitStatus(1), sysfs |-> sysfs],
                   [status |-> SignalStatus(9), sysfs |-> sysfs]}
    IN  IF ~usbip_ok
        THEN {[status |-> ExitStatus(127), sysfs |-> sysfs]}
        ELSE IF Len(argv) = 4 /\ argv[1] = W_usbip /\ argv[2] = W_bind
        THEN failed \cup
             (IF \E i \in 1..Len(attached) : attached[i] = argv[4] /\ argv[4] \notin sysfs
              THEN {[status |-> 0, sysfs |-> sysfs \cup {argv[4]}]} ELSE {})
        ELSE IF Len(argv) = 4 /\ argv[1] = W_usbip /\ argv[2] = W_unbind
        THEN failed \cup
             (IF argv[4] \in sysfs
              THEN {[status |-> 0, sysfs |-> sysfs \ {argv[4]}]} ELSE {})
        ELSE {[status |-> 0, sysfs |-> sysfs]}

\* the outcomes in which the child ends by calling exit
ExitedOutcomes(argv) == {o \in ExecOutcomes(argv) : o.status % 128 = 0}

\* secure_exec_command up to the fork: -1 and a log entry for a command that
\* is not allowed, else the child's argument vector
secure_exec_refused(cmd) == ~validate_command(cmd)

\* the value secure_exec_command returns for a child that ended with status
secure_exec_return(status) == WEXITSTATUS(status)

\* the busid list_usbip_devices copies out of a header line
ParsedBusid(tok) == SubSeq(tok, 1, Min(Len(tok), BUSID_FIELD - 1))

\* the entry list_usbip_devices writes for a header line
ParsedDevice(tok) ==
    [busid |-> ParsedBusid(tok), bound |-> is_device_bound(ParsedBusid(tok))]

\* the log entries of one failing list_usbip_devices: one per command that
\* secure_exec_command refuses, and "Failed to execute usbip" once
ListFailureLog ==
    LET refused == {i \in 1..Len(usbip_commands) : secure_exec_refused(usbip_commands[i])}
    IN  [i \in 1..Cardinality(refused) |-> "Command not allowed"]
        \o (IF g_usbip_error_shown THEN <<>> ELSE <<"Failed to execute usbip">>)

\* list_usbip_devices succeeds when one of its commands returns 0
ListSucceeds ==
    \E i \in 1..Len(usbip_commands) :
        /\ ~secure_exec_refused(usbip_commands[i])
        /\ \E o \in ExecOutcomes(ChildArgv(usbip_commands[i])) :
               secure_exec_return(o.status) = 0

\* the snapshot a whole, undisturbed list_usbip_devices leaves
Enumerated ==
    [i \in 1..Min(Len(attached), MAX_DEVICES) |-> ParsedDevice(attached[i])]


(***************************************************************************)
(* The config store                                                        *)
(***************************************************************************)
\* "/etc/usbctl/config" of init_config, and the path a -c option names
DefaultPath == "/etc/usbctl/config"
Paths == {DefaultPath, "/tmp/usbctl.conf"}

\* char line[256]
LINE_SIZE == 256
\* "port=%d\n", "bind=%s\n", "poll_interval=%d\n" with DEFAULT_PORT,
\* DEFAULT_BIND and the poll interval of g_config
ConfigHeader ==
    <<"p", "o", "r", "t", "=", "1", "1", "9", "8", "0", "\n">>
    \o <<"b", "i", "n", "d", "=", "0", ".", "0", ".", "0", ".", "0", "\n">>
    \o <<"p", "o", "l", "l", "_", "i", "n", "t", "e", "r", "v", "a", "l", "=", "3", "\n">>
K_bound_device == <<"b", "o", "u", "n", "d", "_", "d", "e", "v", "i", "c", "e", "=">>

RECURSIVE Concat(_)
Concat(ss) == IF ss = <<>> THEN <<>> ELSE Head(ss) \o Concat(Tail(ss))

\* update_bound_devices_config: the ids of the bound entries of the array
update_bound_devices_config(devs) ==
    LET b == SelectSeq(devs, LAMBDA d : d.bound)
    IN  [i \in 1..Min(Len(b), MAX_DEVICES) |->
            SubSeq(b[i].busid, 1, safe_strnlen(b[i].busid, BUSID_FIELD - 1))]

\* the bytes save_config prints for the ids in g_config
ConfigText(ids) ==
    ConfigHeader
    \o Concat([i \in 1..Len(ids) |->
                 IF Len(ids[i]) > 0 THEN K_bound_device \o ids[i] \o <<"\n">> ELSE <<>>])

\* fgets and line[strcspn(line, "\n")] = 0: the lines of the text
RECURSIVE FileLines(_, _)
FileLines(text, line) ==
    IF text = <<>> THEN (IF line = <<>> THEN <<>> ELSE <<line>>)
    ELSE IF Head(text) = "\n" \/ Len(line) = LINE_SIZE - 2
         THEN <<IF Head(text) = "\n" THEN line ELSE Append(line, Head(text))>>
              \o FileLines(Tail(text), <<>>)
         ELSE FileLines(Tail(text), Append(line, Head(text)))

\* load_config: the bound_devices the lines of the file leave in g_config
RECURSIVE LoadLines(_, _)
LoadLines(lines, ids) ==
    IF lines = <<>> THEN ids
    ELSE LET line == Head(lines)
             v == SubSeq(line, Len(K_bound_device) + 1, Len(line))
         IN  IF HasPrefix(line, K_bound_device) /\ Len(ids) < MAX_DEVICES
             THEN LoadLines(Tail(lines),
                            Append(ids, SubSeq(v, 1, safe_strnlen(v, BUSID_FIELD - 1))))
             ELSE LoadLines(Tail(lines), ids)
load_config(text) == LoadLines(FileLines(text, <<>>), <<>>)

\* a stream with nothing buffered
NoStream == [text |-> <<>>, ids |-> <<>>]

(***************************************************************************)
(* Initial state: the globals as the program text initialises them         *)
(***************************************************************************)
Init ==
    /\ attached = <<>> /\ sysfs = {} /\ usbip_ok = TRUE
    /\ peer = [f \in Fds |-> "closed"]
    /\ g_devices = <<>> /\ g_usbip_error_shown = FALSE
    /\ g_clients = <<>> /\ g_client_count = 0 /\ g_mutex = "" /\ cfg_file = [p \in Paths |-> <<>>]
    /\ pc = [t \in Threads |-> IF t = "poll" THEN "p_copy" ELSE "idle"]
    /\ req = [t \in Threads |-> NoReq]
    /\ sock = [t \in Threads |-> 0]
    /\ result = [t \in Threads |-> 0]
    /\ out = [t \in Threads |-> <<>>]
    /\ cur = [t \in Threads |-> 0]
    /\ prev = <<>>
    /\ json = [t \in Threads |-> <<>>]
    /\ bi = [t \in Threads |-> 0]
    /\ jage = [t \in Threads |-> 0]
    /\ sage = [f \in Fds |-> 0]
    /\ pollFailed = FALSE
    /\ canon = <<>>
    /\ last = [f \in Fds |-> <<>>]
    /\ gotUpd = [f \in Fds |-> FALSE]
    /\ upd = <<>> /\ nlog = 0 /\ call = NoCall
    \* main() has come to server_thread(NULL) with the default options, no
    \* config file found and nothing to restore
    /\ opt_c = DefaultPath /\ config_path = DefaultPath
    /\ g_config = <<>> /\ g_running = TRUE /\ shutdown_count = 0
    /\ sig = [h \in SigCtx |-> [pc |-> "none", n |-> 0]]
    /\ mpc = "run" /\ ri = 0 /\ exit_status = -1
    /\ fp = [t \in Threads |-> NoStream]
    /\ replies = [t \in Threads |-> 0]
    /\ restored = <<>> /\ saved = <<>>
    /\ writable = TRUE /\ slog = 0

(***************************************************************************)
(* The host changes                                                        *)
(***************************************************************************)
InSeq(x, s) == \E i \in 1..Len(s) : s[i] = x

\* a device is plugged in: the enumerator prints it last
HostPlug(id) ==
    /\ ~InSeq(id, attached)
    /\ attached' = Append(attached, id)
    /\ UNCHANGED <<bootVars, saveVars, replies>>
    /\ UNCHANGED <<sysfs, usbip_ok, peer>>

\* a device is unplugged: it leaves the enumeration and the driver
HostUnplug(id) ==
    /\ InSeq(id, attached)
    /\ attached' = SelectSeq(attached, LAMBDA y : y # id)
    /\ sysfs' = sysfs \ {id}
    /\ UNCHANGED <<bootVars, saveVars, replies>>
    /\ UNCHANGED <<usbip_ok, peer>>

\* the usbip binary disappears, or comes back
HostUsbip ==
    /\ usbip_ok' = ~usbip_ok
    /\ UNCHANGED <<bootVars, saveVars, replies>>
    /\ UNCHANGED <<attached, sysfs, peer>>

(***************************************************************************)
(* The orchestrator and the registry, one call at a time (as main() runs   *)
(* them before the threads exist)                                          *)
(***************************************************************************)
\* bind_device / unbind_device up to the fork: what is logged, and the
\* argument vector of the child if one is spawned
MutationStart(op, busid) ==
    LET cmd == IF op = "bind" THEN BindCmd(busid) ELSE UnbindCmd(busid)
    IN  IF ~validate_busid(busid)
        THEN [spawn |-> FALSE, argv |-> <<>>, log |-> <<"Invalid busid">>]
        ELSE IF Len(cmd) >= CMD_SIZE
        THEN [spawn |-> FALSE, argv |-> <<>>, log |-> <<"Command too long">>]
        ELSE IF secure_exec_refused(cmd)
        THEN [spawn |-> FALSE, argv |-> <<>>, log |-> <<"Command not allowed">>]
        ELSE [spawn |-> TRUE, argv |-> ChildArgv(cmd), log |-> <<>>]

\* result = (secure_exec_command(...) == 0)
MutationResult(status) == IF secure_exec_return(status) = 0 THEN 1 ELSE 0

\* bind_device(busid) or unbind_device(busid), called and returned
MutationCall(op, busid) ==
    LET st == MutationStart(op, busid)
    IN  /\ IF st.spawn
           THEN \E o \in ExecOutcomes(st.argv) :
                    /\ sysfs' = o.sysfs
                    /\ call' = [op |-> op, busid |-> busid,
                                result |-> MutationResult(o.status),
                                argv |-> st.argv, status |-> o.status,
                                log |-> st.log, refreshed |-> FALSE]
           ELSE /\ sysfs' = sysfs
                /\ call' = [op |-> op, busid |-> busid, result |-> 0,
                            argv |-> <<>>, status |-> -1, log |-> st.log,
                            refreshed |-> FALSE]
        /\ UNCHANGED <<attached, usbip_ok, peer, progVars, threadVars, saveVars, replies,
                       canon, last, gotUpd, upd, nlog, sage, pollFailed>>

OrchMutation(op, busid) == MutationCall(op, busid) /\ UNCHANGED bootVars

\* list_usbip_devices(), called and returned
RefreshCall ==
    /\ IF ListSucceeds
       THEN /\ g_devices' = Enumerated
            /\ canon' = Enumerated
            /\ call' = [call EXCEPT !.refreshed = (call.op \in {"bind", "unbind"})]
            /\ UNCHANGED <<g_usbip_error_shown, nlog>>
       ELSE /\ g_usbip_error_shown' = TRUE
            /\ nlog' = Min(nlog + Len(ListFailureLog), LogCap)
            /\ call' = NoCall
            /\ UNCHANGED <<g_devices, canon>>
    /\ UNCHANGED <<envVars, g_clients, g_client_count, g_mutex, cfg_file, threadVars,
                   last, gotUpd, upd, sage, pollFailed, saveVars, replies>>

OrchRefresh == RefreshCall /\ UNCHANGED bootVars

OrchHost ==
    /\ \/ \E id \in BusIds : HostPlug(id)
       \/ \E id \in BusIds : HostUnplug(id)
       \/ HostUsbip
    /\ call' = NoCall
    /\ UNCHANGED <<bootVars, saveVars, replies>>
    /\ UNCHANGED <<progVars, threadVars, canon, last, gotUpd, upd, nlog, sage, pollFailed>>

NextOrch ==
    \/ \E op \in {"bind", "unbind"}, id \in CallIds : OrchMutation(op, id)
    \/ OrchRefresh
    \/ OrchHost

SpecOrch == Init /\ [][NextOrch]_vars


(***************************************************************************)
(* The server: the poll thread and the request threads                     *)
(***************************************************************************)
JSON_BUFFER_SIZE == 8192

\* the characters snprintf writes for device i of generate_devices_json
\* (the info field is empty in this model)
DeviceJsonLen(i, d) ==
    (IF i > 1 THEN 1 ELSE 0) + 10 + Len(d.busid) + 10 + 10
    + (IF d.bound THEN 4 ELSE 5) + 1

\* generate_devices_json: the objects that fit, in array order
RECURSIVE JsonFrom(_, _, _, _)
JsonFrom(devs, i, pos, buffer_size) ==
    IF i > Len(devs) \/ ~(pos < buffer_size - 1) THEN <<>>
    ELSE LET written == DeviceJsonLen(i, devs[i])
         IN  IF pos + written < buffer_size - 1
             THEN <<devs[i]>> \o JsonFrom(devs, i + 1, pos + written, buffer_size)
             ELSE JsonFrom(devs, i + 1, pos, buffer_size)

generate_devices_json(devs, buffer_size) == JsonFrom(devs, 1, 1, buffer_size)

\* a comparison that takes every cycle for a change
ChangedAlways(a, b) == TRUE

\* a comparison of what the two snapshots hold, whatever the order
ChangedAsSets(a, b) ==
    {<<a[i].busid, a[i].bound>> : i \in 1..Len(a)}
        # {<<b[i].busid, b[i].bound>> : i \in 1..Len(b)}

\* the comparison of device_poll_thread
Changed(a, b) ==
    \/ Len(a) # Len(b)
    \/ \E i \in 1..Len(b) : a[i].busid # b[i].busid \/ a[i].bound # b[i].bound

\* where a thread goes when its list_usbip_devices returns
AfterList(t) == IF t = "poll" THEN "p_cmp" ELSE "m_save"

\* list_usbip_devices returns: g_devices as it is now is the snapshot; a
\* refresh that changed it ages every event made before
Commit(t, devs) ==
    /\ canon' = devs
    /\ jage' = [u \in Threads |-> IF devs # canon /\ json[u] # <<>>
                                   THEN Min(jage[u] + 1, AgeCap) ELSE jage[u]]
    /\ sage' = [f \in Fds |-> IF devs # canon /\ last[f] # <<>>
                               THEN Min(sage[f] + 1, AgeCap) ELSE sage[f]]
    /\ pc' = [pc EXCEPT ![t] = AfterList(t)]

NoCommit == UNCHANGED <<canon, jage, sage>>

\* list_usbip_devices, the commands: on failure it logs and returns
ListExec(t) ==
    /\ pc[t] = "l_exec"
    /\ IF ListSucceeds
       THEN /\ out' = [out EXCEPT ![t] = attached]
            /\ pc' = [pc EXCEPT ![t] = "l_reset"]
            /\ nlog' = 0
            /\ pollFailed' = IF t = "poll" THEN FALSE ELSE pollFailed
            /\ UNCHANGED g_usbip_error_shown
       ELSE /\ g_usbip_error_shown' = TRUE
            /\ nlog' = Min(nlog + Len(ListFailureLog), LogCap)
            /\ pc' = [pc EXCEPT ![t] = AfterList(t)]
            /\ pollFailed' = IF t = "poll" THEN TRUE ELSE pollFailed
            /\ UNCHANGED out
    /\ UNCHANGED <<bootVars, saveVars, replies>>
    /\ UNCHANGED <<envVars, g_devices, g_clients, g_client_count, g_mutex, cfg_file, req, sock,
                   result, cur, prev, json, bi, jage, canon, last, gotUpd, upd,
                   sage, call>>

\* g_device_count = 0
ListReset(t) ==
    /\ pc[t] = "l_reset"
    /\ g_devices' = <<>>
    /\ IF out[t] = <<>>
       THEN Commit(t, <<>>)
       ELSE pc' = [pc EXCEPT ![t] = "l_head"] /\ NoCommit
    /\ UNCHANGED <<bootVars, saveVars, replies>>
    /\ UNCHANGED <<envVars, g_usbip_error_shown, g_clients, g_client_count, g_mutex, cfg_file, req,
                   sock, result, out, cur, prev, json, bi, last, gotUpd, upd,
                   nlog, pollFailed, call>>

\* a header line: current = &g_devices[g_device_count++], zeroed
ListHead(t) ==
    /\ pc[t] = "l_head"
    /\ IF Len(g_devices) < MAX_DEVICES
       THEN /\ g_devices' = Append(g_devices, ZeroDevice)
            /\ cur' = [cur EXCEPT ![t] = Len(g_devices) + 1]
            /\ pc' = [pc EXCEPT ![t] = "l_fill"]
            /\ NoCommit
            /\ UNCHANGED out
       ELSE /\ Commit(t, g_devices)
            /\ out' = [out EXCEPT ![t] = <<>>]
            /\ UNCHANGED <<g_devices, cur>>
    /\ UNCHANGED <<bootVars, saveVars, replies>>
    /\ UNCHANGED <<envVars, g_usbip_error_shown, g_clients, g_client_count, g_mutex, cfg_file, req,
                   sock, result, prev, json, bi, last, gotUpd, upd, nlog,
                   pollFailed, call>>

\* the busid is copied into *current and bound is set from sysfs
ListFill(t) ==
    /\ pc[t] = "l_fill"
    /\ LET devs == IF cur[t] <= Len(g_devices)
                   THEN [g_devices EXCEPT ![cur[t]] = ParsedDevice(Head(out[t]))]
                   ELSE g_devices
       IN  /\ g_devices' = devs
           /\ out' = [out EXCEPT ![t] = Tail(out[t])]
           /\ cur' = [cur EXCEPT ![t] = 0]
           /\ IF Tail(out[t]) = <<>>
              THEN Commit(t, devs)
              ELSE pc' = [pc EXCEPT ![t] = "l_head"] /\ NoCommit
    /\ UNCHANGED <<bootVars, saveVars, replies>>
    /\ UNCHANGED <<envVars, g_usbip_error_shown, g_clients, g_client_count, g_mutex, cfg_file, req,
                   sock, result, prev, json, bi, last, gotUpd, upd, nlog,
                   pollFailed, call>>

\* a poll cycle that would write the bound ids of its copy to the config file
PollCopySaves ==
    /\ pc["poll"] = "p_copy"
    /\ g_mutex = ""
    /\ prev' = g_devices
    /\ cfg_file' = [cfg_file EXCEPT ![config_path] =
                       ConfigText(update_bound_devices_config(g_devices))]
    /\ pc' = [pc EXCEPT !["poll"] = "l_exec"]
    /\ UNCHANGED <<bootVars, saveVars, replies>>
    /\ UNCHANGED <<envVars, g_devices, g_usbip_error_shown, g_clients, g_client_count, g_mutex, req,
                   sock, result, out, cur, json, bi, jage, histVars>>

\* device_poll_thread: prev_devices is copied under g_mutex
PollCopy ==
    /\ pc["poll"] = "p_copy"
    /\ g_mutex = ""
    /\ prev' = g_devices
    /\ pc' = [pc EXCEPT !["poll"] = "l_exec"]
    /\ UNCHANGED <<bootVars, saveVars, replies>>
    /\ UNCHANGED <<envVars, progVars, req, sock, result, out, cur, json, bi, jage,
                   histVars>>

\* device_poll_thread: the comparison, and the decision to broadcast
PollCompare ==
    /\ pc["poll"] = "p_cmp"
    /\ pc' = [pc EXCEPT !["poll"] = IF Changed(prev, g_devices) THEN "b_gen" ELSE "p_copy"]
    /\ prev' = <<>>
    /\ UNCHANGED <<bootVars, saveVars, replies>>
    /\ UNCHANGED <<envVars, progVars, req, sock, result, out, cur, json, bi, jage,
                   histVars>>

(***************************************************************************)
(* The broadcast hub                                                       *)
(***************************************************************************)
\* g_clients[i] = g_clients[g_client_count - 1]; g_client_count--
SwapRemove(s, i) ==
    SubSeq(IF i < Len(s) THEN [s EXCEPT ![i] = s[Len(s)]] ELSE s, 1, Len(s) - 1)

\* remove_client: the first entry with this socket, if there is one
remove_client(s, socket) ==
    IF \E i \in 1..Len(s) : s[i] = socket
    THEN SwapRemove(s, CHOOSE i \in 1..Len(s) :
                           s[i] = socket /\ \A j \in 1..(i - 1) : s[j] # socket)
    ELSE s

\* the list a refresh of the host as it is now commits, as an event
UpdatedList == <<generate_devices_json(Enumerated, JSON_BUFFER_SIZE)>>

\* send() hands the event of thread t to the connection on descriptor fd
Deliver(fd, t, publish) ==
    /\ last' = [last EXCEPT ![fd] = json[t]]
    /\ sage' = [sage EXCEPT ![fd] = jage[t]]
    /\ gotUpd' = [gotUpd EXCEPT ![fd] = @ \/ (publish /\ upd # <<>> /\ json[t] = UpdatedList)]

\* close(fd): the connection on fd, if any, is gone with what it had received
Close(fd) ==
    IF fd \in Fds
    THEN /\ peer' = [peer EXCEPT ![fd] = "closed"]
         /\ last' = [last EXCEPT ![fd] = <<>>]
         /\ sage' = [sage EXCEPT ![fd] = 0]
         /\ gotUpd' = [gotUpd EXCEPT ![fd] = FALSE]
    ELSE UNCHANGED <<peer, last, sage, gotUpd>>

\* broadcast_devices_update: the JSON is generated before g_mutex is taken
BcastGen(t) ==
    /\ pc[t] = "b_gen"
    /\ json' = [json EXCEPT ![t] = <<generate_devices_json(g_devices, JSON_BUFFER_SIZE)>>]
    /\ jage' = [jage EXCEPT ![t] = 0]
    /\ pc' = [pc EXCEPT ![t] = "b_lock"]
    /\ UNCHANGED <<bootVars, saveVars, replies>>
    /\ UNCHANGED <<envVars, progVars, req, sock, result, out, cur, prev, bi, histVars>>

\* pthread_mutex_lock(&g_mutex); i = g_client_count - 1
BcastLock(t) ==
    /\ pc[t] = "b_lock"
    /\ g_mutex = ""
    /\ g_mutex' = t
    /\ bi' = [bi EXCEPT ![t] = IF g_client_count > 0 THEN g_client_count ELSE 0]
    /\ pc' = [pc EXCEPT ![t] = "b_send"]
    /\ UNCHANGED <<bootVars, saveVars, replies>>
    /\ UNCHANGED <<envVars, g_devices, g_usbip_error_shown, g_clients, g_client_count, cfg_file, req,
                   sock, result, out, cur, prev, json, jage, histVars>>

\* one turn of the loop: send_sse_message to g_clients[i]; the send waits
\* while the connection's buffer is full; on an error the entry is removed
BcastSend(t) ==
    /\ pc[t] = "b_send"
    /\ bi[t] > 0
    /\ IF bi[t] > Len(g_clients)
       THEN \* signal_handler has set the socket of the entry to -1 and
            \* g_client_count to 0: the send fails, close(-1) closes nothing,
            \* i < g_client_count - 1 is false, g_client_count--
            /\ g_client_count' = g_client_count - 1
            /\ UNCHANGED <<peer, last, sage, gotUpd, g_clients>>
       ELSE LET fd == g_clients[bi[t]]
            IN  /\ peer[fd] # "full"
                /\ IF peer[fd] = "ok"
                   THEN /\ Deliver(fd, t, TRUE)
                        /\ UNCHANGED <<peer, g_clients, g_client_count>>
                   ELSE /\ Close(fd)
                        /\ g_clients' = SwapRemove(g_clients, bi[t])
                        /\ g_client_count' = g_client_count - 1
    /\ bi' = [bi EXCEPT ![t] = @ - 1]
    /\ UNCHANGED <<bootVars, saveVars, replies>>
    /\ UNCHANGED <<attached, sysfs, usbip_ok, g_devices, g_usbip_error_shown, g_mutex,
                   cfg_file, pc, req, sock, result, out, cur, prev, json, jage,
                   canon, upd, nlog, pollFailed, call>>

\* a request thread returns: close(client_socket)
ThreadDone(t) ==
    /\ pc' = [pc EXCEPT ![t] = "idle"]
    /\ req' = [req EXCEPT ![t] = NoReq]
    /\ sock' = [sock EXCEPT ![t] = 0]
    /\ result' = [result EXCEPT ![t] = 0]

\* pthread_mutex_unlock(&g_mutex) after the loop; the poll thread sleeps, a
\* request thread closes its socket and ends
BcastUnlock(t) ==
    /\ pc[t] = "b_send"
    /\ bi[t] = 0
    /\ g_mutex' = ""
    /\ json' = [json EXCEPT ![t] = <<>>]
    /\ jage' = [jage EXCEPT ![t] = 0]
    /\ IF t = "poll"
       THEN /\ pc' = [pc EXCEPT ![t] = "p_copy"]
            /\ UNCHANGED <<peer, last, sage, gotUpd, req, sock, result>>
       ELSE /\ ThreadDone(t)
            /\ Close(sock[t])
    /\ UNCHANGED <<bootVars, saveVars, replies>>
    /\ UNCHANGED <<attached, sysfs, usbip_ok, g_devices, g_usbip_error_shown, g_clients, g_client_count,
                   cfg_file, out, cur, prev, bi, canon, upd, nlog, pollFailed, call>>

(***************************************************************************)
(* handle_client                                                           *)
(***************************************************************************)
\* accept() returns the lowest descriptor that is not open. Only the
\* descriptors of event streams are followed; OtherFd stands for the socket
\* of a request that is answered and closed
OtherFd == 0
FreeFd == CHOOSE f \in Fds : peer[f] = "closed" /\ \A g \in Fds : peer[g] = "closed" => f <= g

Accept(t, kind, busid, first, fd) ==
    /\ mpc = "run"
    /\ pc[t] = "idle"
    /\ sock' = [sock EXCEPT ![t] = fd]
    /\ req' = [req EXCEPT ![t] = [kind |-> kind, busid |-> busid]]
    /\ pc' = [pc EXCEPT ![t] = first]
    /\ replies' = [replies EXCEPT ![t] = 0]
    /\ UNCHANGED <<bootVars, saveVars>>
    /\ UNCHANGED <<attached, sysfs, usbip_ok, progVars, result, out, cur, prev, json,
                   bi, jage, histVars>>

\* GET /events
AcceptEvents(t) ==
    /\ \E f \in Fds : peer[f] = "closed"
    /\ peer' = [peer EXCEPT ![FreeFd] = "ok"]
    /\ Accept(t, "events", <<>>, "sse_add", FreeFd)
\* POST /bind or /unbind: a busid of fewer than 16 characters is copied and
\* handed on; with a longer one nothing is left to do but close the socket
AcceptMutation(t, op, busid) ==
    /\ UNCHANGED peer
    /\ Accept(t, op, busid, IF Len(busid) < BUSID_FIELD THEN "m_call" ELSE "m_drop",
              OtherFd)
\* close(client_socket) of a request nothing was done for
MutDrop(t) ==
    /\ pc[t] = "m_drop"
    /\ ThreadDone(t)
    /\ Close(sock[t])
    /\ UNCHANGED <<bootVars, saveVars, replies>>
    /\ UNCHANGED <<attached, sysfs, usbip_ok, progVars, out, cur, prev, json, bi,
                   jage, canon, upd, nlog, pollFailed, call>>
\* GET /api/devices
AcceptGet(t) ==
    /\ UNCHANGED peer
    /\ Accept(t, "get", <<>>, "get", OtherFd)

\* add_sse_client
SseAdd(t) ==
    /\ pc[t] = "sse_add"
    /\ g_mutex = ""
    /\ g_clients' = IF 0 <= g_client_count /\ g_client_count < MAX_CLIENTS
                    THEN Append(g_clients, sock[t]) ELSE g_clients
    \* with g_client_count below 0 the entry is written in front of the
    \* array: the table does not hold it
    /\ g_client_count' = IF g_client_count < MAX_CLIENTS
                         THEN g_client_count + 1 ELSE g_client_count
    /\ pc' = [pc EXCEPT ![t] = "sse_gen"]
    /\ UNCHANGED <<bootVars, saveVars, replies>>
    /\ UNCHANGED <<envVars, g_devices, g_usbip_error_shown, g_mutex, cfg_file, req,
                   sock, result, out, cur, prev, json, bi, jage, histVars>>

\* the initial event is generated, without g_mutex
SseGen(t) ==
    /\ pc[t] = "sse_gen"
    /\ json' = [json EXCEPT ![t] = <<generate_devices_json(g_devices, JSON_BUFFER_SIZE)>>]
    /\ jage' = [jage EXCEPT ![t] = 0]
    /\ pc' = [pc EXCEPT ![t] = "sse_send"]
    /\ UNCHANGED <<bootVars, saveVars, replies>>
    /\ UNCHANGED <<envVars, progVars, req, sock, result, out, cur, prev, bi, histVars>>

\* and sent, without g_mutex; a failure of the send is ignored
SseSend(t) ==
    /\ pc[t] = "sse_send"
    /\ peer[sock[t]] # "full"
    /\ IF peer[sock[t]] = "ok"
       THEN Deliver(sock[t], t, FALSE)
       ELSE UNCHANGED <<last, sage, gotUpd>>
    /\ json' = [json EXCEPT ![t] = <<>>]
    /\ jage' = [jage EXCEPT ![t] = 0]
    /\ pc' = [pc EXCEPT ![t] = "sse_loop"]
    /\ UNCHANGED <<bootVars, saveVars, replies>>
    /\ UNCHANGED <<envVars, progVars, req, sock, result, out, cur, prev, bi,
                   canon, upd, nlog, pollFailed, call>>

\* recv() returns 0 or an error other than a timeout: the loop ends
SseLeave(t) ==
    /\ pc[t] = "sse_loop"
    /\ peer[sock[t]] \in {"gone", "closed"}
    /\ pc' = [pc EXCEPT ![t] = "sse_remove"]
    /\ UNCHANGED <<bootVars, saveVars, replies>>
    /\ UNCHANGED <<envVars, progVars, req, sock, result, out, cur, prev, json, bi,
                   jage, histVars>>

\* remove_client(client_socket)
SseRemove(t) ==
    /\ pc[t] = "sse_remove"
    /\ g_mutex = ""
    /\ g_clients' = remove_client(g_clients, sock[t])
    /\ g_client_count' = IF InSeq(sock[t], g_clients)
                         THEN g_client_count - 1 ELSE g_client_count
    /\ pc' = [pc EXCEPT ![t] = "sse_close"]
    /\ UNCHANGED <<bootVars, saveVars, replies>>
    /\ UNCHANGED <<envVars, g_devices, g_usbip_error_shown, g_mutex, cfg_file, req,
                   sock, result, out, cur, prev, json, bi, jage, histVars>>

\* close(client_socket)
SseClose(t) ==
    /\ pc[t] = "sse_close"
    /\ Close(sock[t])
    /\ ThreadDone(t)
    /\ UNCHANGED <<bootVars, saveVars, replies>>
    /\ UNCHANGED <<attached, sysfs, usbip_ok, progVars, out, cur, prev, json, bi,
                   jage, canon, upd, nlog, pollFailed, call>>

\* bind_device / unbind_device up to the fork; a failure is answered with
\* status 500 and the thread ends
MutCall(t) ==
    /\ pc[t] = "m_call"
    /\ IF MutationStart(req[t].kind, req[t].busid).spawn
       THEN /\ pc' = [pc EXCEPT ![t] = "m_wait"]
            /\ UNCHANGED <<peer, last, sage, gotUpd, req, sock, result>>
       ELSE /\ ThreadDone(t)
            /\ Close(sock[t])
    /\ replies' = [replies EXCEPT ![t] =
                      IF MutationStart(req[t].kind, req[t].busid).spawn THEN @ ELSE @ + 1]
    /\ UNCHANGED <<bootVars, saveVars>>
    /\ UNCHANGED <<attached, sysfs, usbip_ok, progVars, out, cur, prev, json, bi,
                   jage, canon, upd, nlog, pollFailed, call>>

\* waitpid returns; on success the thread goes on to list_usbip_devices.
\* Under the server the children end by exit; a child that a signal ends is
\* followed on the orchestrator
MutWait(t) ==
    /\ pc[t] = "m_wait"
    /\ \E o \in ExitedOutcomes(MutationStart(req[t].kind, req[t].busid).argv) :
        /\ sysfs' = o.sysfs
        /\ upd' = IF o.sysfs = sysfs THEN upd
                  ELSE IF req[t].kind = "unbind" THEN <<req[t].busid>> ELSE <<>>
        /\ IF MutationResult(o.status) = 1
           THEN /\ pc' = [pc EXCEPT ![t] = "l_exec"]
                /\ result' = [result EXCEPT ![t] = 1]
                /\ gotUpd' = IF o.sysfs = sysfs THEN gotUpd ELSE [f \in Fds |-> FALSE]
                /\ UNCHANGED <<peer, last, sage, req, sock, replies>>
           ELSE /\ ThreadDone(t)
                /\ Close(sock[t])
                /\ replies' = [replies EXCEPT ![t] = @ + 1]
    /\ UNCHANGED <<bootVars, saveVars>>
    /\ UNCHANGED <<attached, usbip_ok, progVars, out, cur, prev, json, bi, jage,
                   canon, nlog, pollFailed, call>>

\* update_bound_devices_config and the bound_device= lines of save_config
BoundIds(devs) ==
    LET b == SelectSeq(devs, LAMBDA d : d.bound)
    IN  SelectSeq([i \in 1..Len(b) |-> b[i].busid], LAMBDA id : Len(id) > 0)

\* save_config up to its fclose: fopen(path, "w") leaves the file empty, the
\* lines are printed into the buffer of the stream
MutSave(t) ==
    /\ pc[t] = "m_save"
    /\ IF writable
       THEN /\ g_config' = update_bound_devices_config(g_devices)
            /\ cfg_file' = [cfg_file EXCEPT ![config_path] = <<>>]
            /\ fp' = [fp EXCEPT ![t] = [text |-> ConfigText(g_config'), ids |-> g_config']]
            /\ saved' = <<>>
            /\ pc' = [pc EXCEPT ![t] = "m_write"]
            /\ UNCHANGED replies
       ELSE \* if (!fp) return 0; the caller drops the result and replies
            /\ replies' = [replies EXCEPT ![t] = @ + 1]
            /\ pc' = [pc EXCEPT ![t] = "b_gen"]
            /\ UNCHANGED <<g_config, cfg_file, fp, saved>>
    /\ UNCHANGED <<bootVars, writable, slog>>
    /\ UNCHANGED <<envVars, g_devices, g_usbip_error_shown, g_clients, g_client_count, g_mutex, req,
                   sock, result, out, cur, prev, json, bi, jage, histVars>>

\* fclose(fp) writes the buffer out at the stream's offset, the start of the
\* file, over what the file holds by then; the success reply with the device list
\* is sent; the broadcast follows
MutSaveClose(t) ==
    /\ pc[t] = "m_write"
    /\ cfg_file' = [cfg_file EXCEPT ![config_path] =
                       fp[t].text \o SubSeq(@, Len(fp[t].text) + 1, Len(@))]
    /\ saved' = <<fp[t].ids>>
    /\ fp' = [fp EXCEPT ![t] = NoStream]
    /\ replies' = [replies EXCEPT ![t] = @ + 1]
    /\ pc' = [pc EXCEPT ![t] = "b_gen"]
    /\ UNCHANGED <<bootVars, g_config, writable, slog>>
    /\ UNCHANGED <<envVars, g_devices, g_usbip_error_shown, g_clients, g_client_count, g_mutex, req,
                   sock, result, out, cur, prev, json, bi, jage, histVars>>

\* GET /api/devices: the list is generated and sent, the thread ends
GetDevices(t) ==
    /\ pc[t] = "get"
    /\ ThreadDone(t)
    /\ Close(sock[t])
    /\ UNCHANGED <<bootVars, saveVars, replies>>
    /\ UNCHANGED <<attached, sysfs, usbip_ok, progVars, out, cur, prev, json, bi,
                   jage, canon, upd, nlog, pollFailed, call>>

(***************************************************************************)
(* The viewers and the host while the server runs                          *)
(***************************************************************************)
\* descriptors of connections being served as event streams
EventFds == {sock[t] : t \in {h \in Handlers : req[h].kind = "events"}}

\* a viewer stops reading: the connection's buffers fill up
PeerStall(fd) ==
    /\ fd \in EventFds /\ peer[fd] = "ok"
    /\ peer' = [peer EXCEPT ![fd] = "full"]
    /\ UNCHANGED <<bootVars, saveVars, replies>>
    /\ UNCHANGED <<attached, sysfs, usbip_ok, progVars, threadVars, histVars>>

\* it reads again
PeerDrain(fd) ==
    /\ fd \in EventFds /\ peer[fd] = "full"
    /\ peer' = [peer EXCEPT ![fd] = "ok"]
    /\ UNCHANGED <<bootVars, saveVars, replies>>
    /\ UNCHANGED <<attached, sysfs, usbip_ok, progVars, threadVars, histVars>>

\* a viewer disconnects
PeerHangup(fd) ==
    /\ fd \in EventFds /\ peer[fd] \in {"ok", "full"}
    /\ peer' = [peer EXCEPT ![fd] = "gone"]
    /\ UNCHANGED <<bootVars, saveVars, replies>>
    /\ UNCHANGED <<attached, sysfs, usbip_ok, progVars, threadVars, histVars>>

\* what a change of the host does to the record of the last unbind
HostChanged ==
    /\ upd' = <<>>
    /\ gotUpd' = [f \in Fds |-> FALSE]
    /\ UNCHANGED <<bootVars, saveVars, replies>>
    /\ UNCHANGED <<progVars, threadVars, canon, last, nlog, sage, pollFailed, call>>

\* a device is plugged in or unplugged under the running server
SrvPlug(id) == HostPlug(id) /\ HostChanged
SrvUnplug(id) == HostUnplug(id) /\ HostChanged
\* the usbip binary disappears or comes back under the running server
SrvUsbip == HostUsbip /\ HostChanged

\* the file system of the config file fills up or is remounted read-only
SrvDisk ==
    /\ writable
    /\ writable' = FALSE
    /\ UNCHANGED <<envVars, progVars, threadVars, histVars, bootVars, replies,
                   g_config, fp, saved, slog>>

(***************************************************************************)
(* main(), and the process being killed and started again                  *)
(***************************************************************************)
\* init_config(); load_config(); then the options: load_config reads the
\* default path, -c sets config_path after it
MainLoad ==
    /\ mpc = "load"
    /\ g_config' = load_config(cfg_file[config_path])
    /\ config_path' = opt_c
    /\ mpc' = "list0"
    /\ UNCHANGED <<opt_c, g_running, shutdown_count, sig, ri, exit_status, restored>>
    /\ UNCHANGED <<envVars, progVars, threadVars, histVars, fp, saved, writable, slog, replies>>

\* a main() that goes from its first list_usbip_devices() to the threads
MainListOnly ==
    /\ mpc \in {"list0", "list1"}
    /\ RefreshCall
    /\ mpc' = "start"
    /\ ri' = 1
    /\ UNCHANGED <<opt_c, config_path, g_running, shutdown_count, sig, exit_status, restored>>

\* list_usbip_devices() before and after restore_bound_devices()
MainList ==
    /\ mpc \in {"list0", "list1"}
    /\ RefreshCall
    /\ mpc' = IF mpc = "list0" /\ Len(g_config) > 0 THEN "restore" ELSE "start"
    /\ ri' = 1
    /\ UNCHANGED <<opt_c, config_path, g_running, shutdown_count, sig, exit_status, restored>>

\* one turn of the loop of restore_bound_devices
MainRestore ==
    /\ mpc = "restore"
    /\ IF Len(g_config[ri]) > 0
       THEN /\ MutationCall("bind", g_config[ri])
            /\ restored' = Append(restored, g_config[ri])
       ELSE UNCHANGED <<envVars, progVars, threadVars, histVars, saveVars, replies,
                        restored>>
    /\ ri' = ri + 1
    /\ mpc' = IF ri < Len(g_config) THEN "restore" ELSE "list1"
    /\ UNCHANGED <<opt_c, config_path, g_running, shutdown_count, sig, exit_status>>

\* the handlers are installed, the poll thread is created, server_thread runs
MainStart ==
    /\ mpc = "start"
    /\ mpc' = "run"
    /\ pc' = [pc EXCEPT !["poll"] = "p_copy"]
    /\ UNCHANGED <<opt_c, config_path, g_running, shutdown_count, sig, ri, exit_status,
                   restored>>
    /\ UNCHANGED <<envVars, progVars, req, sock, result, out, cur, prev, json, bi, jage,
                   histVars, saveVars, replies>>

\* the process is killed and the service is started again with the same
\* command line: the host and the files stay, nothing else does
KillRestart ==
    /\ peer' = [f \in Fds |-> "closed"]
    /\ g_devices' = <<>> /\ g_usbip_error_shown' = FALSE
    /\ g_clients' = <<>> /\ g_client_count' = 0 /\ g_mutex' = ""
    /\ pc' = [t \in Threads |-> IF t = "poll" THEN "off" ELSE "idle"]
    /\ req' = [t \in Threads |-> NoReq]
    /\ sock' = [t \in Threads |-> 0]
    /\ result' = [t \in Threads |-> 0]
    /\ out' = [t \in Threads |-> <<>>]
    /\ cur' = [t \in Threads |-> 0]
    /\ prev' = <<>>
    /\ json' = [t \in Threads |-> <<>>]
    /\ bi' = [t \in Threads |-> 0]
    /\ jage' = [t \in Threads |-> 0]
    /\ sage' = [f \in Fds |-> 0]
    /\ pollFailed' = FALSE
    /\ canon' = <<>>
    /\ last' = [f \in Fds |-> <<>>]
    /\ gotUpd' = [f \in Fds |-> FALSE]
    /\ upd' = <<>> /\ nlog' = 0 /\ call' = NoCall
    /\ config_path' = DefaultPath /\ g_config' = <<>>
    /\ g_running' = TRUE /\ shutdown_count' = 0 /\ sig' = [h \in SigCtx |-> [pc |-> "none", n |-> 0]]
    /\ mpc' = "load" /\ ri' = 0 /\ exit_status' = -1
    /\ fp' = [t \in Threads |-> NoStream]
    /\ replies' = [t \in Threads |-> 0]
    /\ restored' = <<>>
    /\ UNCHANGED <<attached, sysfs, usbip_ok, cfg_file, opt_c, saved, writable, slog>>

\* the process as the service manager starts it, on a host with one device
\* attached and none bound: with no config file yet, or with the file as a
\* run of the service with two devices bound has saved it
InitBoot ==
    /\ attached = <<Dev2>> /\ sysfs = {} /\ usbip_ok = TRUE
    /\ peer = [f \in Fds |-> "closed"]
    /\ g_devices = <<>> /\ g_usbip_error_shown = FALSE
    /\ g_clients = <<>> /\ g_client_count = 0 /\ g_mutex = ""
    /\ opt_c \in Paths
    /\ saved \in {<<>>, <<<<Dev1, Dev2>>>>}
    /\ cfg_file = [p \in Paths |-> IF p = opt_c /\ saved # <<>>
                                    THEN ConfigText(saved[1]) ELSE <<>>]
    /\ pc = [t \in Threads |-> IF t = "poll" THEN "off" ELSE "idle"]
    /\ req = [t \in Threads |-> NoReq]
    /\ sock = [t \in Threads |-> 0]
    /\ result = [t \in Threads |-> 0]
    /\ out = [t \in Threads |-> <<>>]
    /\ cur = [t \in Threads |-> 0]
    /\ prev = <<>>
    /\ json = [t \in Threads |-> <<>>]
    /\ bi = [t \in Threads |-> 0]
    /\ jage = [t \in Threads |-> 0]
    /\ sage = [f \in Fds |-> 0]
    /\ pollFailed = FALSE
    /\ canon = <<>>
    /\ last = [f \in Fds |-> <<>>]
    /\ gotUpd = [f \in Fds |-> FALSE]
    /\ upd = <<>> /\ nlog = 0 /\ call = NoCall
    /\ config_path = DefaultPath
    /\ g_config = <<>> /\ g_running = TRUE /\ shutdown_count = 0
    /\ sig = [h \in SigCtx |-> [pc |-> "none", n |-> 0]]
    /\ mpc = "load" /\ ri = 0 /\ exit_status = -1
    /\ fp = [t \in Threads |-> NoStream]
    /\ replies = [t \in Threads |-> 0]
    /\ restored = <<>>
    /\ writable = TRUE /\ slog = 0

(***************************************************************************)
(* signal_handler                                                          *)
(***************************************************************************)

\* SIGINT or SIGTERM is delivered. Before main has installed the handler the
\* signal ends the process; after, signal_handler is entered on the thread
\* that takes the signal and shutdown_count is read
SigDeliver(h) ==
    /\ sig[h].pc = "none" /\ exit_status = -1
    /\ h = "s2" => sig["s1"].pc # "none"
    /\ IF mpc = "run"
       THEN /\ sig' = [sig EXCEPT ![h] = [pc |-> "count", n |-> shutdown_count]]
            /\ UNCHANGED <<exit_status, peer, mpc>>
       ELSE /\ sig' = [sig EXCEPT ![h] = [pc |-> "killed", n |-> 0]]
            /\ exit_status' = SignalStatus(15)
            /\ peer' = [f \in Fds |-> "closed"]
            /\ mpc' = "exited"
    /\ UNCHANGED <<opt_c, config_path, g_running, shutdown_count, ri, restored>>
    /\ UNCHANGED <<attached, sysfs, usbip_ok, progVars, threadVars, histVars, saveVars,
                   replies>>

\* shutdown_count++ is written back; if (shutdown_count == 1)
SigCount(h) ==
    /\ sig[h].pc = "count" /\ exit_status = -1
    /\ shutdown_count' = sig[h].n + 1
    /\ sig' = [sig EXCEPT ![h].pc = IF sig[h].n + 1 = 1 THEN "graceful" ELSE "force"]
    /\ UNCHANGED <<opt_c, config_path, g_running, mpc, ri, exit_status, restored>>
    /\ UNCHANGED <<envVars, progVars, threadVars, histVars, saveVars, replies>>

\* g_running = 0; the sockets in g_clients are closed, g_client_count = 0;
\* g_mutex is not taken
SigClose(h) ==
    /\ sig[h].pc = "graceful" /\ exit_status = -1
    /\ g_running' = FALSE
    /\ peer' = [f \in Fds |-> IF InSeq(f, g_clients) THEN "closed" ELSE peer[f]]
    /\ last' = [f \in Fds |-> IF InSeq(f, g_clients) THEN <<>> ELSE last[f]]
    /\ sage' = [f \in Fds |-> IF InSeq(f, g_clients) THEN 0 ELSE sage[f]]
    /\ gotUpd' = [f \in Fds |-> IF InSeq(f, g_clients) THEN FALSE ELSE gotUpd[f]]
    /\ g_clients' = <<>> /\ g_client_count' = 0
    /\ sig' = [sig EXCEPT ![h].pc = "exit"]
    /\ UNCHANGED <<opt_c, config_path, shutdown_count, mpc, ri, exit_status, restored>>
    /\ UNCHANGED <<attached, sysfs, usbip_ok, g_devices, g_usbip_error_shown, g_mutex,
                   cfg_file, threadVars, canon, upd, nlog, pollFailed, call, saveVars,
                   replies>>

\* the process ends with the given status: its threads are gone and every
\* descriptor is closed
ProcessExit(h, status) ==
    /\ exit_status' = status
    /\ peer' = [f \in Fds |-> "closed"]
    /\ pc' = [t \in Threads |-> "off"]
    /\ mpc' = "exited"
    /\ sig' = [sig EXCEPT ![h].pc = "done"]
    /\ UNCHANGED <<opt_c, config_path, g_running, shutdown_count, ri, restored>>
    /\ UNCHANGED <<attached, sysfs, usbip_ok, progVars, req, sock, result, out, cur, prev,
                   json, bi, jage, histVars, saveVars, replies>>

\* a handler that returned to the interrupted code in place of exit(0)
SigReturn(h) ==
    /\ sig[h].pc = "exit" /\ exit_status = -1
    /\ sig' = [sig EXCEPT ![h].pc = "done"]
    /\ UNCHANGED <<opt_c, config_path, g_running, shutdown_count, mpc, ri, exit_status,
                   restored>>
    /\ UNCHANGED <<envVars, progVars, threadVars, histVars, saveVars, replies>>

\* exit(0)
SigExit(h) == sig[h].pc = "exit" /\ exit_status = -1 /\ ProcessExit(h, ExitStatus(0))
\* _exit(1)
SigForce(h) == sig[h].pc = "force" /\ exit_status = -1 /\ ProcessExit(h, ExitStatus(1))
SigStep == \E h \in SigCtx : SigCount(h) \/ SigClose(h) \/ SigExit(h) \/ SigForce(h)

\* the child of secure_exec_command neither exits nor closes its output:
\* read() and waitpid() have no time limit and there is none around them
ChildHangs(t) ==
    /\ pc[t] \in {"m_wait", "l_exec"}
    /\ pc' = [pc EXCEPT ![t] = "hung"]
    /\ UNCHANGED <<bootVars, saveVars, replies>>
    /\ UNCHANGED <<envVars, progVars, req, sock, result, out, cur, prev, json, bi, jage,
                   histVars>>

(***************************************************************************)
(* Specifications                                                          *)
(***************************************************************************)
ListStep(t) == ListExec(t) \/ ListReset(t) \/ ListHead(t) \/ ListFill(t)
BcastStep(t) == BcastGen(t) \/ BcastLock(t) \/ BcastSend(t) \/ BcastUnlock(t)
PollStep == PollCopy \/ PollCompare \/ ListStep("poll") \/ BcastStep("poll")
MutStep(t) ==
    MutCall(t) \/ MutWait(t) \/ ListStep(t) \/ MutSave(t) \/ MutSaveClose(t) \/ BcastStep(t)
SseJoin(t) == SseAdd(t) \/ SseGen(t) \/ SseSend(t)
SseStep(t) == SseJoin(t) \/ SseLeave(t) \/ SseRemove(t) \/ SseClose(t)
PlugStep == \E id \in HotIds : SrvPlug(id) \/ SrvUnplug(id)

\* the identifiers of mutation requests
ReqIds == {Dev1, IdSemi}
Ops == {"bind", "unbind"}

\* the poll thread, a thread serving bind and unbind requests, and a viewer
\* that connects and reads its events, while devices are plugged in
Next ==
    \/ PollStep
    \/ \E op \in Ops, id \in ReqIds : AcceptMutation("h1", op, id)
    \/ MutStep("h1")
    \/ AcceptEvents("h2")
    \/ SseJoin("h2")
    \/ \E id \in HotIds : SrvPlug(id)

Spec == Init /\ [][Next]_vars

\* the poll thread and two viewers that may stop reading or disconnect
NextHub ==
    \/ PollStep
    \/ \E t \in Handlers : AcceptEvents(t) \/ SseStep(t)
    \/ \E fd \in Fds : PeerStall(fd) \/ PeerDrain(fd) \/ PeerHangup(fd)
    \/ PlugStep

SpecHub == Init /\ [][NextHub]_vars

\* two threads that serve bind and unbind requests at the same time, or a
\* viewer
NextMut ==
    \/ \E t \in Handlers : \E op \in Ops, id \in ReqIds \cup {IdLong63} :
           AcceptMutation(t, op, id)
    \/ \E t \in Handlers : MutStep(t)
    \/ \E t \in Handlers : MutDrop(t)
    \/ \E t \in Handlers : ChildHangs(t)
    \/ \E t \in Handlers : AcceptEvents(t) \/ SseStep(t)
    \/ \E fd \in Fds : PeerHangup(fd)
    \/ PlugStep

SpecMut == Init /\ [][NextMut]_vars

\* the poll thread, a thread serving list requests and a viewer, while the
\* usbip binary comes and goes
NextEnum ==
    \/ PollStep
    \/ AcceptGet("h1")
    \/ GetDevices("h1")
    \/ AcceptEvents("h2")
    \/ SseStep("h2")
    \/ \E fd \in Fds : PeerHangup(fd)
    \/ PlugStep
    \/ SrvUsbip

SpecEnum == Init /\ [][NextEnum]_vars

\* the process from its start: main, then a thread serving bind and unbind
\* requests and a viewer, while a device is plugged in and the process is
\* killed and started again
NextCfg ==
    \/ MainLoad \/ MainList \/ MainRestore \/ MainStart
    \/ \E op \in Ops, id \in BusIds : AcceptMutation("h1", op, id)
    \/ MutStep("h1")
    \/ AcceptEvents("h2")
    \/ SseJoin("h2")
    \/ \E id \in HotIds : SrvPlug(id) \/ SrvUnplug(id)
    \/ KillRestart

SpecCfg == InitBoot /\ [][NextCfg]_vars

\* a client binding and unbinding a device, a viewer, and the config file
\* that stops being writable
SpecDisk ==
    /\ Init
    /\ [][\/ \E op \in Ops : AcceptMutation("h1", op, Dev1)
          \/ MutStep("h1")
          \/ AcceptEvents("h2")
          \/ SseJoin("h2")
          \/ \E id \in HotIds : SrvPlug(id)
          \/ SrvDisk]_vars

\* MAX_CLIENTS - 1 viewers are connected, each served by a thread of its own
\* that waits in recv and is not followed here; two more arrive
InitFull ==
    /\ attached = <<>> /\ sysfs = {} /\ usbip_ok = TRUE
    /\ g_clients = [i \in 1..(MAX_CLIENTS - 1) |-> 5 + i]
    /\ g_client_count = MAX_CLIENTS - 1
    /\ peer = [f \in Fds |-> IF InSeq(f, g_clients) THEN "ok" ELSE "closed"]
    /\ last = [f \in Fds |-> IF InSeq(f, g_clients)
                              THEN <<generate_devices_json(<<>>, JSON_BUFFER_SIZE)>>
                              ELSE <<>>]
    /\ g_devices = <<>> /\ g_usbip_error_shown = FALSE
    /\ g_mutex = "" /\ cfg_file = [p \in Paths |-> <<>>]
    /\ pc = [t \in Threads |-> IF t = "poll" THEN "p_copy" ELSE "idle"]
    /\ req = [t \in Threads |-> NoReq]
    /\ sock = [t \in Threads |-> 0]
    /\ result = [t \in Threads |-> 0]
    /\ out = [t \in Threads |-> <<>>]
    /\ cur = [t \in Threads |-> 0]
    /\ prev = <<>>
    /\ json = [t \in Threads |-> <<>>]
    /\ bi = [t \in Threads |-> 0]
    /\ jage = [t \in Threads |-> 0]
    /\ sage = [f \in Fds |-> 0]
    /\ pollFailed = FALSE
    /\ canon = <<>>
    /\ gotUpd = [f \in Fds |-> FALSE]
    /\ upd = <<>> /\ nlog = 0 /\ call = NoCall
    /\ opt_c = DefaultPath /\ config_path = DefaultPath
    /\ g_config = <<>> /\ g_running = TRUE /\ shutdown_count = 0
    /\ sig = [h \in SigCtx |-> [pc |-> "none", n |-> 0]]
    /\ mpc = "run" /\ ri = 0 /\ exit_status = -1
    /\ fp = [t \in Threads |-> NoStream]
    /\ replies = [t \in Threads |-> 0]
    /\ restored = <<>> /\ saved = <<>>
    /\ writable = TRUE /\ slog = 0

SpecFull ==
    /\ InitFull
    /\ [][\/ PollStep
          \/ \E t \in Handlers : AcceptEvents(t) \/ SseJoin(t)
          \/ \E id \in HotIds : SrvPlug(id)]_vars

\* two clients, each binding and unbinding its own device, at the same
\* time; a viewer; both devices are plugged in
SpecSave ==
    /\ Init
    /\ [][\/ \E op \in Ops : AcceptMutation("h1", op, Dev1)
          \/ \E op \in Ops : AcceptMutation("h2", op, Dev2)
          \/ \E t \in Handlers : MutStep(t)
          \/ AcceptEvents("h2")
          \/ SseJoin("h2")
          \/ \E id \in BusIds : SrvPlug(id)]_vars

\* everything that runs beside a save of the config: main with the restore,
\* the poll thread, a client whose unbind requests succeed or fail, a viewer
\* that connects and disconnects
SpecRec ==
    /\ InitBoot
    /\ [][\/ MainLoad \/ MainList \/ MainRestore \/ MainStart
          \/ PollStep
          \/ \E id \in {Dev2, IdSemi} : AcceptMutation("h1", "unbind", id)
          \/ MutStep("h1")
          \/ AcceptEvents("h2")
          \/ SseStep("h2")
          \/ \E fd \in Fds : PeerHangup(fd)]_vars

\* the comparison of the poll loop on any two snapshots of up to CmpLen
\* devices, descriptions included: the poll thread has its copy, the
\* refresh has returned
InitCmp ==
    LET Devs == [busid : BusIds, bound : BOOLEAN, desc : {<<"H", "u", "b">>, <<"K", "e", "y">>}]
        Snaps == UNION {[1..n -> Devs] : n \in 0..CmpLen}
    IN  /\ prev \in Snaps /\ g_devices \in Snaps
        /\ canon = g_devices
        /\ attached = [i \in 1..Len(g_devices) |-> g_devices[i].busid]
        /\ sysfs = {g_devices[i].busid : i \in {j \in 1..Len(g_devices) : g_devices[j].bound}}
        /\ usbip_ok = TRUE
        /\ peer = [f \in Fds |-> "closed"]
        /\ g_usbip_error_shown = FALSE
        /\ g_clients = <<>> /\ g_client_count = 0 /\ g_mutex = "" /\ cfg_file = [p \in Paths |-> <<>>]
        /\ pc = [t \in Threads |-> IF t = "poll" THEN "p_cmp" ELSE "idle"]
        /\ req = [t \in Threads |-> NoReq]
        /\ sock = [t \in Threads |-> 0]
        /\ result = [t \in Threads |-> 0]
        /\ out = [t \in Threads |-> <<>>]
        /\ cur = [t \in Threads |-> 0]
        /\ json = [t \in Threads |-> <<>>]
        /\ bi = [t \in Threads |-> 0]
        /\ jage = [t \in Threads |-> 0]
        /\ sage = [f \in Fds |-> 0]
        /\ pollFailed = FALSE
        /\ last = [f \in Fds |-> <<>>]
        /\ gotUpd = [f \in Fds |-> FALSE]
        /\ upd = <<>> /\ nlog = 0 /\ call = NoCall
        /\ opt_c = DefaultPath /\ config_path = DefaultPath
        /\ g_config = <<>> /\ g_running = TRUE /\ shutdown_count = 0
        /\ sig = [h \in SigCtx |-> [pc |-> "none", n |-> 0]]
        /\ mpc = "run" /\ ri = 0 /\ exit_status = -1
        /\ fp = [t \in Threads |-> NoStream]
        /\ replies = [t \in Threads |-> 0]
        /\ restored = <<>> /\ saved = <<>>
        /\ writable = TRUE /\ slog = 0

SpecCmp == InitCmp /\ [][PollCompare]_vars

\* the process from its start to its end: main, the poll thread, whose
\* child may hang, a viewer that may stall, a device that is plugged in, and
\* SIGINT or SIGTERM delivered up to twice
NextStop ==
    \/ MainLoad \/ MainList \/ MainRestore \/ MainStart
    \/ PollStep
    \/ ChildHangs("poll")
    \/ AcceptEvents("h2")
    \/ SseJoin("h2")
    \/ \E fd \in Fds : PeerStall(fd)
    \/ \E id \in HotIds : SrvPlug(id)
    \/ \E h \in SigCtx : SigDeliver(h)
    \/ SigStep

\* signal_handler runs on a thread that the system goes on scheduling
SpecStop == InitBoot /\ [][NextStop]_vars /\ WF_vars(SigStep)

(***************************************************************************)
(* Claims checked on the orchestrator (SpecOrch)                           *)
(***************************************************************************)
\* the identifier grammar as the specification words it: non-empty, of
\* bounded length, digits, dots and hyphens only
GrammarRejects(id) ==
    \/ Len(id) = 0
    \/ Len(id) >= BUSID_MAX
    \/ \E i \in 1..Len(id) : id[i] \notin (Digits \cup {".", "-"})

\* C1: for every id the identifier grammar rejects, bind and unbind fail with
\* the invalid-identifier result and no process is spawned
C1_InvalidIdNeverSpawns ==
    (call.op \in {"bind", "unbind"} /\ GrammarRejects(call.busid))
        => /\ call.result = 0
           /\ call.argv = <<>>
           /\ call.log = <<"Invalid busid">>

\* C1 witness: bind("../etc/passwd") has returned, rejected, with no child
C1_Witness ==
    /\ call.op = "bind" /\ call.busid = IdPath
    /\ call.result = 0 /\ call.argv = <<>>

\* the device with id x, where the snapshot has it, has bound = b
ShowsBound(x, b) ==
    \A i \in 1..Len(g_devices) : g_devices[i].busid = x => g_devices[i].bound = b

\* C2: a successful bind(x) followed immediately by a refresh yields a
\* snapshot in which x, if present, is bound; a successful unbind(x)
\* followed immediately by a refresh yields one in which it is not
C2_MutationThenRefresh ==
    (call.result = 1 /\ call.refreshed)
        => /\ call.op = "bind" => ShowsBound(call.busid, TRUE)
           /\ call.op = "unbind" => ShowsBound(call.busid, FALSE)


(***************************************************************************)
(* Claims checked on the running server                                    *)
(***************************************************************************)
\* thread t is in broadcast_devices_update, about to hand its event to a
\* subscriber whose connection takes it
Publishing(t) ==
    /\ pc[t] = "b_send" /\ bi[t] > 0
    /\ peer[g_clients[bi[t]]] = "ok"

\* a request thread has completed the refresh of its successful unbind
UnbindRefreshed(t) ==
    /\ pc[t] = "m_save" /\ req[t].kind = "unbind"
    /\ upd = <<req[t].busid>>

\* C3: after the unbind of a bound device succeeds, the next snapshot shows
\* the device with bound = false, and every live subscriber receives exactly
\* one new delivery carrying the updated list, however the request and the
\* poll loop interleave: no publisher hands the updated list to a subscriber
\* that has received it since the unbind
C3_UnbindOneDelivery ==
    /\ \A t \in Handlers : UnbindRefreshed(t) => ShowsBound(req[t].busid, FALSE)
    /\ \A t \in Threads :
           (Publishing(t) /\ upd # <<>> /\ json[t] = UpdatedList)
               => ~gotUpd[g_clients[bi[t]]]

\* C4: a refresh that leaves the snapshot as it was is not published: no
\* subscriber is handed the event that was its last delivery
C4_NoRepeatedDelivery ==
    \A t \in Threads : Publishing(t) => json[t] # last[g_clients[bi[t]]]

\* C5: a subscriber whose transport is held full never blocks publish: a
\* thread inside the publish loop can always take its next step
C5_StalledNeverBlocks ==
    \A t \in Threads :
        pc[t] = "b_send" => ENABLED (BcastSend(t) \/ BcastUnlock(t))

\* thread t is about to read g_devices: the list request, the initial event
\* of a subscriber, the serialization for a publish, the poll loop's
\* comparison and its copy
Reading(t) ==
    \/ pc[t] \in {"get", "sse_gen", "b_gen", "p_cmp", "m_save"}
    \/ pc[t] = "p_copy" /\ g_mutex = ""

\* C6: every read of the snapshot returns a committed snapshot, never the
\* list of a refresh in progress: what a reader finds in g_devices is what
\* the last completed refresh left there
C6_ReadersSeeCommitted ==
    \A t \in Threads : Reading(t) => g_devices = canon

\* C7: two calls for the same device id are serialized: the external command
\* of one does not run while the command of the other is running
C7_SameIdSerialized ==
    \A t, u \in Handlers :
        (t # u /\ pc[t] = "m_wait" /\ pc[u] = "m_wait")
            => req[t].busid # req[u].busid

\* C8: while the enumerator binary is missing every refresh cycle reports no
\* change, and over the consecutive failing cycles one log entry is emitted
\* in total
C8_OneLogEntryWhileMissing ==
    /\ nlog <= 1
    /\ (pollFailed /\ pc["poll"] = "p_cmp") => ~Changed(prev, g_devices)

\* C9: the payload of every publish is the latest committed snapshot at the
\* moment it is handed to a subscriber
C9_PublishesCommitted ==
    \A t \in Threads :
        Publishing(t) => json[t] = <<generate_devices_json(canon, JSON_BUFFER_SIZE)>>

\* thread t is about to hand its event to the connection on descriptor fd:
\* a publish, or the initial event of the connection
Handing(t, fd) ==
    \/ Publishing(t) /\ fd = g_clients[bi[t]]
    \/ pc[t] = "sse_send" /\ fd = sock[t] /\ peer[fd] = "ok"

\* C10: each subscriber receives snapshots in commit order, the initial
\* event included: it is never handed an event made before a snapshot
\* change after it received one made since that change
C10_CommitOrder ==
    \A t \in Threads, fd \in Fds :
        (Handing(t, fd) /\ last[fd] # <<>>) => jage[t] <= sage[fd]

\* the connection on descriptor fd is intact: open, its remote end there
Intact(fd) == peer[fd] \in {"ok", "full"}

\* C11: when a subscriber's connection breaks only that subscriber is
\* removed and only its transport is closed: no step closes the descriptor
\* of an intact connection or takes it out of the subscriber set, also when
\* the descriptor number was used by a broken connection before
C11_OnlyBrokenRemoved ==
    [][\A fd \in Fds :
          Intact(fd) => /\ peer'[fd] # "closed"
                        /\ InSeq(fd, g_clients) => InSeq(fd, g_clients')]_vars

\* thread t runs remove_client for a subscription that a failed publish has
\* removed already: its descriptor was closed, and is closed still or is the
\* descriptor of a later connection
RemovesAgain(t) ==
    /\ pc[t] = "sse_remove" /\ pc'[t] = "sse_close"
    /\ peer[sock[t]] # "gone"

\* C12: unsubscribe is idempotent: unsubscribing a subscription that was
\* removed already leaves the subscriber set unchanged
C12_UnsubscribeIdempotent ==
    [][\A t \in Handlers : RemovesAgain(t) => g_clients' = g_clients]_vars

\* C13: saving the config and then loading it reproduces the bound device
\* ids in the same order: what load_config leaves in g_config when the
\* process starts is the list of ids the last completed save_config wrote
C13_ConfigRoundTrip ==
    (mpc = "list0" /\ saved # <<>>) => g_config = saved[1]

\* C14: an interrupted config write never corrupts the persisted record:
\* once save_config has opened the file, and until it has closed it, a load
\* of what is on disk yields the complete old record or the complete new one
C14_InterruptedSaveKeepsRecord ==
    [][\A t \in Handlers :
          (pc[t] = "m_save" /\ pc'[t] = "m_write") =>
              load_config(cfg_file'[config_path])
                  \in {load_config(cfg_file[config_path]), g_config'}]_vars

\* C15: on the first interrupt or termination request the service enters
\* the shutdown path and ends with success status, and a request that
\* arrives while the shutdown is underway forces the immediate exit: the
\* process ends by exit(0) or by _exit(1) only, by _exit(1) only after a
\* second request, and a second request never takes the shutdown path too
C15_SignalExit ==
    /\ exit_status \in {-1, ExitStatus(0), ExitStatus(1)}
    /\ exit_status = ExitStatus(1) => \A h \in SigCtx : sig[h].pc # "none"
    /\ ~ \A h \in SigCtx : sig[h].pc \in {"graceful", "exit"}

\* C16: after the shutdown signal nothing blocks the shutdown, neither the
\* poll loop, nor a task serving a subscriber, nor a task inside a Gateway
\* call: the process comes to its end, its threads gone and every
\* subscriber connection closed
C16_ShutdownCompletes ==
    (\E h \in SigCtx : sig[h].pc # "none")
        ~> (exit_status # -1 /\ mpc = "exited" /\ peer = [f \in Fds |-> "closed"])

\* the handler has closed the subscribers' sockets and is about to exit
\* while the poll thread waits for a child that does not end
C16_Witness ==
    /\ \E h \in SigCtx : sig[h].pc = "exit"
    /\ ~g_running /\ pc["poll"] = "hung"

\* C17: every Gateway call returns to its caller: a thread whose child
\* neither exits nor closes its output is not left waiting, the call is
\* ended at the timeout and the thread goes on
C17_GatewayCallReturns ==
    \A t \in Handlers : pc[t] = "hung" => ENABLED MutStep(t)

\* C20: every bind or unbind request receives exactly one reply: a thread
\* that ends such a request, whatever the id in it, has sent one response
C20_OneReply ==
    [][\A t \in Handlers :
          (req[t].kind \in Ops /\ pc[t] # "idle" /\ pc'[t] = "idle")
              => replies'[t] = 1]_vars

\* C18: at startup the bind path is invoked once for each persisted id, in
\* the stored order, a failure does not stop the loop, and the restore is
\* complete before the poll thread exists and before a request is accepted
C18_RestoreBeforeServing ==
    LET ids == SelectSeq(g_config, LAMBDA id : Len(id) > 0)
    IN  /\ mpc # "load" =>
              /\ Len(restored) <= Len(ids)
              /\ restored = SubSeq(ids, 1, Len(restored))
        /\ (pc["poll"] # "off" \/ \E t \in Handlers : pc[t] \notin {"idle", "off"})
              => (mpc = "run" /\ restored = ids)

\* two ids were restored in the stored order, the bind of the first failed
\* and that of the second succeeded, and the poll thread is in its first cycle
C18_Witness ==
    /\ restored = <<Dev1, Dev2>> /\ sysfs = {Dev2}
    /\ pc["poll"] = "l_exec" /\ canon = Enumerated /\ nlog = 0

\* C19: a bind or unbind that succeeded is followed by a refresh, then by a
\* save of the bound ids of the refreshed snapshot, then by the publish: the
\* thread that saves has refreshed, and the ids it writes are the bound ids
\* of the snapshot as the last completed refresh left it
C19_SaveOfRefreshed ==
    [][\A t \in Handlers :
          (pc[t] = "m_save" /\ pc'[t] = "m_write")
              => /\ result[t] = 1
                 /\ g_config' = BoundIds(canon)]_vars

\* C21: when the config file cannot be opened for the save that follows a
\* successful bind or unbind, the mutation is not aborted: the caller gets
\* its one reply, the snapshot stays as refreshed, the thread goes on to the
\* broadcast, and the failure is written to the log.
C21_SaveFailureLogged ==
    [][\A t \in Handlers :
          (pc[t] = "m_save" /\ pc'[t] # "m_save" /\ mpc' = "run" /\ ~writable)
          => /\ replies'[t] = replies[t] + 1
             /\ g_devices' = g_devices /\ canon' = canon
             /\ pc'[t] = "b_gen"
             /\ slog' > slog]_vars
\* C22: every connection that is served as an event stream is in the
\* subscriber set from its connect to its disconnect, however many viewers
\* are connected: a thread that has come past add_sse_client and serves an
\* open connection has its descriptor in g_clients.
C22_ServedIsSubscribed ==
    \A t \in Handlers :
        (pc[t] \in {"sse_gen", "sse_send", "sse_loop"} /\ peer[sock[t]] \in {"ok", "full"})
        => InSeq(sock[t], g_clients)
\* C23: bind and unbind report success only when the external command ended
\* by exiting with status 0; a non-zero exit, a death by signal and a command
\* that was not started are failures.
C23_SuccessIsExitZero ==
    (call.op \in {"bind", "unbind"} /\ call.result = 1) => call.status = ExitStatus(0)
\* C24: no command the program's own call sites hand to secure_exec_command
\* is rejected by the allow-list: neither a bind or unbind call nor a refresh
\* that has tried its commands logs "Command not allowed".
C24_NoCommandRejected ==
    /\ ~InSeq("Command not allowed", call.log)
    /\ g_usbip_error_shown => ~InSeq("Command not allowed", ListFailureLog)
\* C25: a bind or unbind request that fails, for its id or for the external
\* command, is answered with a failure, and its thread ends having done
\* nothing else: no refresh, no save of the config, no broadcast; snapshot,
\* config and subscriber set are as they were.
C25_FailedMutationFrame ==
    [][\A t \in Handlers :
          (req[t].kind \in Ops /\ pc[t] \in {"m_call", "m_wait", "m_drop"}
             /\ pc'[t] = "idle")
          => /\ replies'[t] = 1
             /\ UNCHANGED <<g_devices, canon, cfg_file, g_config, g_clients, last>>]_vars
C27_MembersAreOpen ==
    \A i \in 1..Len(g_clients) : peer[g_clients[i]] # "closed"
C29_SavesDoNotInterleave ==
    [][\A t \in Handlers :
          (pc[t] = "m_write" /\ pc'[t] = "b_gen")
          => cfg_file'[config_path] \in {fp[t].text, cfg_file[config_path]}]_vars
\* C30: the poll loop finds a change exactly when the new snapshot and its
\* copy of the previous one differ in length, or at some position in id or
\* in bound flag: the same devices in another order are a change, other
\* descriptions alone are not.
C30_ChangedIffDiffers ==
    pc["poll"] = "p_cmp"
    => /\ Changed(prev, g_devices)
            <=> [i \in 1..Len(prev) |-> <<prev[i].busid, prev[i].bound>>]
                    # [i \in 1..Len(g_devices) |-> <<g_devices[i].busid, g_devices[i].bound>>]
       /\ (\E i, j \in 1..Len(prev) :
               /\ prev[i].busid # prev[j].busid
               /\ g_devices = [prev EXCEPT ![i] = prev[j], ![j] = prev[i]])
            => Changed(prev, g_devices)
       /\ (/\ Len(prev) = Len(g_devices)
           /\ \A i \in 1..Len(prev) : /\ prev[i].busid = g_devices[i].busid
                                       /\ prev[i].bound = g_devices[i].bound)
            => ~Changed(prev, g_devices)

\* the two snapshots hold the same two devices in opposite order, with the
\* same flags and descriptions, and the comparison finds a change
C30_Witness ==
    /\ pc["poll"] = "p_cmp" /\ Len(prev) = 2
    /\ prev[1].busid # prev[2].busid
    /\ g_devices = <<prev[2], prev[1]>>
    /\ Changed(prev, g_devices)
\* C31: a failure of the enumerator is logged once for each run of failing
\* cycles: the first failing refresh after a successful one (or after the
\* start) writes "Failed to execute usbip" to the log.
C31_NewFailureLoggedAgain ==
    [][(pc["poll"] = "l_exec" /\ pc'["poll"] = "p_cmp" /\ nlog = 0)
          => InSeq("Failed to execute usbip", ListFailureLog)]_vars
\* C32: for every id that passes validate_busid, the process bind or unbind
\* spawns has the argument vector usbip, the verb, -b and the id as one
\* argument, the id whole and unchanged.
C32_ArgvIsFixedPlusId ==
    (call.op \in {"bind", "unbind"} /\ call.argv # <<>>)
    => call.argv = <<W_usbip, IF call.op = "bind" THEN W_bind ELSE W_unbind, W_b,
                     call.busid>>

\* an unbind with the longest valid id has spawned its child
C32_Witness ==
    /\ call.op = "unbind" /\ call.busid = IdLong63
    /\ Len(call.argv) = 4 /\ call.argv[4] = IdLong63


(***************************************************************************)
(* The text of the device array                                            *)
(***************************************************************************)
INFO_SIZE == 256
INFO_SANITIZED_SIZE == 256
RESPONSE_SIZE == 4096
REPLY_JSON_SIZE == 4096
DescLen == 90

\* the text snprintf writes into device_json for g_devices[i]: the info field
\* without its control characters, a backslash before each quote and
\* backslash, at most INFO_SANITIZED_SIZE - 1 characters of it.  The text is
\* shorter than device_json for every busid and info the fields can hold.
\* Turn(j, s) is one turn of the sanitizing loop, s.over once it has ended;
\* Turns takes the turns lo..hi in order, by halves.
DeviceJson(i, d) ==
    LET Turn(j, s) ==
            IF s.over \/ ~(Len(s.text) < INFO_SANITIZED_SIZE - 1)
            THEN [s EXCEPT !.over = TRUE]
            ELSE IF d.desc[j] \in {"\"", "\\"}
                 THEN IF Len(s.text) + 2 >= INFO_SANITIZED_SIZE - 1
                      THEN [s EXCEPT !.over = TRUE]
                      ELSE [s EXCEPT !.text = @ \o <<"\\", d.desc[j]>>]
            ELSE IF d.desc[j] \in {"\t", "\r"} THEN s
            ELSE [s EXCEPT !.text = Append(@, d.desc[j])]
        RECURSIVE Turns(_, _, _)
        Turns(lo, hi, s) ==
            IF lo > hi THEN s
            ELSE IF lo = hi THEN Turn(lo, s)
            ELSE LET half == Turns(lo, (lo + hi) \div 2, s)
                 IN  IF half.over THEN half ELSE Turns((lo + hi) \div 2 + 1, hi, half)
        info_sanitized == Turns(1, Len(d.desc), [text |-> <<>>, over |-> FALSE]).text
    IN  (IF i > 1 THEN <<",">> ELSE <<>>)
        \o <<"{", "\"", "b", "u", "s", "i", "d", "\"", ":", "\"">> \o d.busid
        \o <<"\"", ",", "\"", "i", "n", "f", "o", "\"", ":", "\"">> \o info_sanitized
        \o <<"\"", ",", "\"", "b", "o", "u", "n", "d", "\"", ":">>
        \o (IF d.bound THEN <<"t", "r", "u", "e">> ELSE <<"f", "a", "l", "s", "e">>)
        \o <<"}">>

\* generate_devices_json, its text: buffer holds pos = Len(buffer) characters;
\* an object is copied when it leaves room, "]" is added when there is room
RECURSIVE JsonText(_, _, _, _)
JsonText(devs, i, buffer, buffer_size) ==
    IF i <= Len(devs) /\ Len(buffer) < buffer_size - 1
    THEN LET device_json == DeviceJson(i, devs[i])
         IN  JsonText(devs, i + 1,
                      IF Len(buffer) + Len(device_json) < buffer_size - 1
                      THEN buffer \o device_json ELSE buffer,
                      buffer_size)
    ELSE IF Len(buffer) < buffer_size - 1 THEN Append(buffer, "]") ELSE buffer

\* send_sse_message: what goes to the socket for data
send_sse_message(data) ==
    <<"d", "a", "t", "a", ":", " ">>
    \o SubSeq(data, 1, safe_strnlen(data, RESPONSE_SIZE - 10))
    \o <<"\n", "\n">>

\* a snapshot of up to MAX_DEVICES devices with one of four descriptions, a
\* viewer on descriptor 4, a mutation of thread h1 that has succeeded
InitJson ==
    LET Descs == {<<>>, <<"\"", "H", "u", "b", "\"", "\t", "\\">>,
                  Rep("x", DescLen), Rep("x", INFO_SIZE - 1)}
        Id(i) == <<"1", "-", "1", ".">>
                 \o (IF i >= 10 THEN <<ToString(i \div 10)>> ELSE <<>>)
                 \o <<ToString(i % 10)>>
    IN  /\ \E n \in 0..MAX_DEVICES, desc \in Descs :
               g_devices = [i \in 1..n |-> [busid |-> Id(i), bound |-> i % 2 = 1,
                                            desc |-> desc]]
        /\ canon = g_devices
        /\ attached = [i \in 1..Len(g_devices) |-> g_devices[i].busid]
        /\ sysfs = {g_devices[i].busid : i \in {j \in 1..Len(g_devices) : g_devices[j].bound}}
        /\ usbip_ok = TRUE
        /\ peer = [f \in Fds |-> IF f = 4 THEN "ok" ELSE "closed"]
        /\ g_usbip_error_shown = FALSE
        /\ g_clients = <<4>> /\ g_client_count = 1 /\ g_mutex = "" /\ cfg_file = [p \in Paths |-> <<>>]
        /\ pc = [t \in Threads |-> IF t = "poll" THEN "p_copy" ELSE "idle"]
        /\ req = [t \in Threads |-> NoReq]
        /\ sock = [t \in Threads |-> 0]
        /\ result = [t \in Threads |-> 0]
        /\ out = [t \in Threads |-> <<>>]
        /\ cur = [t \in Threads |-> 0]
        /\ prev = <<>>
        /\ json = [t \in Threads |-> <<>>]
        /\ bi = [t \in Threads |-> 0]
        /\ jage = [t \in Threads |-> 0]
        /\ sage = [f \in Fds |-> 0]
        /\ pollFailed = FALSE
        /\ last = [f \in Fds |-> <<>>]
        /\ gotUpd = [f \in Fds |-> FALSE]
        /\ upd = <<>> /\ nlog = 0 /\ call = NoCall
        /\ opt_c = DefaultPath /\ config_path = DefaultPath
        /\ g_config = <<>> /\ g_running = TRUE /\ shutdown_count = 0
        /\ sig = [h \in SigCtx |-> [pc |-> "none", n |-> 0]]
        /\ mpc = "run" /\ ri = 0 /\ exit_status = -1
        /\ fp = [t \in Threads |-> NoStream]
        /\ replies = [t \in Threads |-> 0]
        /\ restored = <<>> /\ saved = <<>>
        /\ writable = TRUE /\ slog = 0

\* handle_client after a mutation that succeeded: the array of the reply
JsonReply ==
    /\ replies["h1"] = 0
    /\ json' = [json EXCEPT !["h1"] = JsonText(g_devices, 1, <<"[">>, REPLY_JSON_SIZE)]
    /\ replies' = [replies EXCEPT !["h1"] = 1]
    /\ UNCHANGED <<envVars, progVars, histVars, bootVars, saveVars>>
    /\ UNCHANGED <<pc, req, sock, result, out, cur, prev, bi, jage>>

\* broadcast_devices_update: the event sent to the viewer
JsonEvent ==
    /\ last[4] = <<>>
    /\ last' = [last EXCEPT ![4] =
                   <<send_sse_message(JsonText(g_devices, 1, <<"[">>, JSON_BUFFER_SIZE))>>]
    /\ UNCHANGED <<envVars, progVars, threadVars, bootVars, saveVars, replies>>
    /\ UNCHANGED <<canon, gotUpd, upd, nlog, sage, pollFailed, call>>

SpecJson == InitJson /\ [][JsonReply \/ JsonEvent]_vars

\* C33: the array of every event and of every reply to a mutation that
\* succeeded is complete: "[", one object for each device of the canonical
\* snapshot in its order, "]", for every snapshot of up to MAX_DEVICES devices
\* with descriptions up to the length of the info field.
C33_ArrayIsComplete ==
    LET RECURSIVE Objects(_)
        Objects(i) == IF i > Len(canon) THEN <<>>
                      ELSE DeviceJson(i, canon[i]) \o Objects(i + 1)
        array == <<"[">> \o Objects(1) \o <<"]">>
    IN  /\ replies["h1"] > 0 => json["h1"] = array
        /\ last[4] # <<>>
             => last[4][1] = <<"d", "a", "t", "a", ":", " ">> \o array \o <<"\n", "\n">>


(***************************************************************************)
(* The poll loop and a viewer, scheduled fairly                            *)
(***************************************************************************)
\* the poll thread and the thread that serves a viewer are threads of the
\* process, which the system goes on scheduling; the viewer reads whatever
\* is sent to it; devices are plugged in and unplugged as the host likes
SpecLive ==
    /\ Init
    /\ [][PollStep \/ AcceptEvents("h2") \/ SseJoin("h2") \/ PlugStep]_vars
    /\ WF_vars(PollStep) /\ WF_vars(SseJoin("h2"))

\* C34: if from some point on the devices of the host and their drivers do
\* not change, then from some point on the canonical snapshot is the state
\* of the host and the last event of every subscriber that reads is that
\* snapshot.
C34_DrainingViewerCatchesUp ==
    <>[][attached' = attached /\ sysfs' = sysfs]_vars
    => <>[](/\ canon = Enumerated
            /\ \A fd \in Fds : (InSeq(fd, g_clients) /\ peer[fd] = "ok")
                   => last[fd] = <<generate_devices_json(canon, JSON_BUFFER_SIZE)>>)


\* the poll thread and the threads of two viewers; a viewer may stop reading
\* and may start again.  The threads are scheduled, and a thread that can
\* take g_mutex again and again does take it at some time
SpecWait ==
    /\ Init
    /\ [][\/ PollStep
          \/ \E t \in Handlers : AcceptEvents(t) \/ SseJoin(t)
          \/ \E fd \in Fds : PeerStall(fd) \/ PeerDrain(fd)
          \/ \E id \in HotIds : SrvPlug(id)]_vars
    /\ SF_vars(PollStep) /\ \A t \in Handlers : SF_vars(SseJoin(t))

\* C35: no task waits for ever for g_mutex, the one lock of the service: a
\* thread that has come to pthread_mutex_lock (in device_poll_thread, in
\* broadcast_devices_update or in add_sse_client) gets past it.
C35_NoTaskWaitsForever ==
    \A t \in Threads :
        (pc[t] \in {"p_copy", "b_lock", "sse_add"})
            ~> (pc[t] \notin {"p_copy", "b_lock", "sse_add"})


\* C36: in every state the snapshot holds at most MAX_DEVICES devices,
\* g_client_count is between 0 and MAX_CLIENTS, and no descriptor is twice in
\* the subscriber table.
C36_CountsInRange ==
    /\ Len(g_devices) \in 0..MAX_DEVICES
    /\ g_client_count \in 0..MAX_CLIENTS
    /\ \A i, j \in 1..Len(g_clients) : i # j => g_clients[i] # g_clients[j]


(***************************************************************************)
(* The parser of the enumeration                                           *)
(***************************************************************************)
ParseLen == 2

\* the usbip binary prints up to ParseLen header lines, with any of these
\* ids in any order: the two ids of a usual host, an id with a character
\* outside the grammar, two ids of 16 characters that differ in the last;
\* any of the two usual ids is bound.  The server runs, a viewer is
\* connected on descriptor 4, served by a thread that waits in recv and is
\* not followed; the poll thread is about to start a cycle
InitParse ==
    LET Usual == {<<"1", "-", "1", ".", "2">>, <<"2", "-", "1", ".", "1">>}
        Printed == Usual \cup {IdSemi, Rep("1", BUSID_FIELD - 1) \o <<"2">>,
                               Rep("1", BUSID_FIELD - 1) \o <<"3">>}
    IN  /\ attached \in UNION {[1..n -> Printed] : n \in 0..ParseLen}
        /\ sysfs \in SUBSET Usual
        /\ usbip_ok = TRUE
        /\ peer = [f \in Fds |-> IF f = 4 THEN "ok" ELSE "closed"]
        /\ g_devices = <<>> /\ g_usbip_error_shown = FALSE
        /\ g_clients = <<4>> /\ g_client_count = 1 /\ g_mutex = ""
        /\ cfg_file = [p \in Paths |-> <<>>]
        /\ pc = [t \in Threads |-> IF t = "poll" THEN "p_copy" ELSE "idle"]
        /\ req = [t \in Threads |-> NoReq]
        /\ sock = [t \in Threads |-> 0]
        /\ result = [t \in Threads |-> 0]
        /\ out = [t \in Threads |-> <<>>]
        /\ cur = [t \in Threads |-> 0]
        /\ prev = <<>>
        /\ json = [t \in Threads |-> <<>>]
        /\ bi = [t \in Threads |-> 0]
        /\ jage = [t \in Threads |-> 0]
        /\ sage = [f \in Fds |-> 0]
        /\ pollFailed = FALSE
        /\ canon = <<>>
        /\ last = [f \in Fds |-> IF f = 4
                                  THEN <<generate_devices_json(<<>>, JSON_BUFFER_SIZE)>>
                                  ELSE <<>>]
        /\ gotUpd = [f \in Fds |-> FALSE]
        /\ upd = <<>> /\ nlog = 0 /\ call = NoCall
        /\ opt_c = DefaultPath /\ config_path = DefaultPath
        /\ g_config = <<>> /\ g_running = TRUE /\ shutdown_count = 0
        /\ sig = [h \in SigCtx |-> [pc |-> "none", n |-> 0]]
        /\ mpc = "run" /\ ri = 0 /\ exit_status = -1
        /\ fp = [t \in Threads |-> NoStream]
        /\ replies = [t \in Threads |-> 0]
        /\ restored = <<>> /\ saved = <<>>
        /\ writable = TRUE /\ slog = 0

\* the poll thread alone: every refresh runs undisturbed
SpecParse == InitParse /\ [][PollStep]_vars

\* C37: no two entries of a canonical snapshot have the same id, whatever
\* the enumerator has printed.
C37_IdsUnique ==
    \A i, j \in 1..Len(canon) : i # j => canon[i].busid # canon[j].busid

\* C38: every id of the canonical snapshot and every id that bind or unbind
\* has accepted is in the identifier grammar of the specification: not
\* empty, shorter than BUSID_MAX, digits, dots and hyphens only, no two
\* hyphens next to each other.
C38_IdsInGrammar ==
    LET InGrammar(id) ==
            /\ Len(id) > 0 /\ Len(id) < BUSID_MAX
            /\ \A i \in 1..Len(id) : id[i] \in Digits \cup {".", "-"}
            /\ \A i \in 1..(Len(id) - 1) : ~(id[i] = "-" /\ id[i + 1] = "-")
    IN  /\ \A i \in 1..Len(canon) : InGrammar(canon[i].busid)
        /\ (call.op \in {"bind", "unbind"} /\ call.argv # <<>>) => InGrammar(call.busid)

\* C39: a refresh leaves the devices in the order of the enumeration, each
\* id that the busid field holds as printed, with bound true exactly for the
\* ids that have an entry under the driver in sysfs.
C39_OrderAndBound ==
    pc["poll"] = "p_cmp"
    => /\ Len(g_devices) = Len(attached)
       /\ \A i \in 1..Len(attached) :
              Len(attached[i]) < BUSID_FIELD
              => /\ g_devices[i].busid = attached[i]
                 /\ g_devices[i].bound = (attached[i] \in sysfs)

\* the enumeration is 1-1.2 then 2-1.1, only 1-1.2 is bound, and the refresh
\* has returned with [1-1.2 bound, 2-1.1 not bound]
C39_Witness ==
    /\ pc["poll"] = "p_cmp"
    /\ attached = <<<<"1", "-", "1", ".", "2">>, <<"2", "-", "1", ".", "1">>>>
    /\ sysfs = {<<"1", "-", "1", ".", "2">>}
    /\ g_devices = <<[busid |-> <<"1", "-", "1", ".", "2">>, bound |-> TRUE],
                     [busid |-> <<"2", "-", "1", ".", "1">>, bound |-> FALSE]>>
====
